---- MODULE Spec2Model ----
(***************************************************************************)
(* anki_bridge: the typed-action dispatch of src/lib.rs                    *)
(* (anki_connect_send), the request/response envelopes, the error enum,    *)
(* and the catalog of wrapper functions of card_actions.rs,                *)
(* deck_actions.rs and graphical_actions.rs that call it.                  *)
(*                                                                         *)
(* JSON values on the wire are tagged records ([t |-> "num", v |-> 1]);    *)
(* Rust values are plain TLA+ values (a Vec is a sequence, a struct a      *)
(* record keyed by the Rust field names, an Option a `some` record).       *)
(* Serialisation (Encode) and deserialisation (Decode) convert between     *)
(* the two along a shape, the model of a Rust type.                        *)
(***************************************************************************)
EXTENDS Integers, Sequences, FiniteSets, TLC

(***************************************************************************)
(* Bounds of the model.                                                    *)
(***************************************************************************)
\* longest JSON array the stub transport puts in a response
MaxLen == 3
\* number of dispatch calls one caller issues one after the other
MaxCalls == 2
\* number of independent call sites
NumCallers == 2
\* the longest list inside a value that is sent through serialisation and back
MaxItems == 1

(***************************************************************************)
(* JSON values.                                                            *)
(***************************************************************************)
JNull == [t |-> "null"]
JBool(b) == [t |-> "bool", v |-> b]
JNum(n) == [t |-> "num", v |-> n]
JStr(s) == [t |-> "str", v |-> s]
JArr(a) == [t |-> "arr", v |-> a]
\* an object: o is a function from its keys to JSON values
JObj(o) == [t |-> "obj", v |-> o]

\* the keys of a JSON object
Keys(j) == DOMAIN j.v

(***************************************************************************)
(* Shapes: the Rust types that are serialised or deserialised.             *)
(***************************************************************************)
SUnit == [k |-> "unit"]
SBool == [k |-> "bool"]
SUsize == [k |-> "usize"]
SIsize == [k |-> "isize"]
SF32 == [k |-> "f32"]
SString == [k |-> "string"]
SVec(s) == [k |-> "vec", of |-> s]
SMap(s) == [k |-> "map", of |-> s]
SOpt(s) == [k |-> "opt", of |-> s]
\* one field of a struct: its Rust name, its key on the wire (after
\* #[serde(rename)] / rename_all), the shape of its value
F(name, key, shape) == [name |-> name, key |-> key, shape |-> shape, skip |-> FALSE]
\* a field with #[serde(skip_serializing_if = "Option::is_none")]
FSkip(name, key, shape) == [name |-> name, key |-> key, shape |-> shape, skip |-> TRUE]
SStruct(name, fields) == [k |-> "struct", name |-> name, fields |-> fields]
\* a struct with #[derive(Deserialize_tuple)]: on the wire an array
STuple(name, fields) == [k |-> "tuple", name |-> name, fields |-> fields]
\* u64 and i64 are usize and isize on the 64-bit targets
SU64 == SUsize
SI64 == SIsize

\* Option<T>
None == [some |-> FALSE]
Some(x) == [some |-> TRUE, v |-> x]

\* the value of ()
Unit == "()"

FieldNames(s) == {s.fields[i].name : i \in 1..Len(s.fields)}
FieldKeys(s) == {s.fields[i].key : i \in 1..Len(s.fields)}
FieldOf(s, name) == CHOOSE i \in 1..Len(s.fields) : s.fields[i].name = name

(***************************************************************************)
(* Default::default() of a shape: #[derive(Default)] on the structs, the   *)
(* standard library's defaults for the rest.                               *)
(***************************************************************************)
RECURSIVE DefaultOf(_)
DefaultOf(s) ==
    CASE s.k = "unit" -> Unit
      [] s.k = "bool" -> FALSE
      [] s.k \in {"usize", "isize", "f32"} -> 0
      [] s.k = "string" -> ""
      [] s.k \in {"vec", "map"} -> <<>>
      [] s.k = "opt" -> None
      [] s.k \in {"struct", "tuple"} ->
            [n \in FieldNames(s) |-> DefaultOf(s.fields[FieldOf(s, n)].shape)]

\* a value of the shape that is not its default
RECURSIVE SampleOf(_)
SampleOf(s) ==
    CASE s.k = "unit" -> Unit
      [] s.k = "bool" -> TRUE
      [] s.k \in {"usize", "isize", "f32"} -> 1
      [] s.k = "string" -> "a"
      [] s.k = "vec" -> <<SampleOf(s.of)>>
      [] s.k = "map" -> [key \in {"a"} |-> SampleOf(s.of)]
      [] s.k = "opt" -> Some(SampleOf(s.of))
      [] s.k = "struct" ->
            [n \in FieldNames(s) |-> SampleOf(s.fields[FieldOf(s, n)].shape)]

(***************************************************************************)
(* serde::Serialize into JSON (ureq's send_json).  A struct becomes an     *)
(* object keyed by the wire keys; a field marked                           *)
(* skip_serializing_if = "Option::is_none" is left out when None, and the  *)
(* params field of AnkiConnectRequest is one of these.                     *)
(***************************************************************************)
\* Written with every field written, a None as null
WrittenAll(s, x) == 1..Len(s.fields)

\* fields of struct value x that are written
Written(s, x) ==
    {i \in 1..Len(s.fields) :
        ~(s.fields[i].skip /\ ~x[s.fields[i].name].some)}

RECURSIVE Encode(_, _)
Encode(s, x) ==
    CASE s.k = "unit" -> JNull
      [] s.k = "bool" -> JBool(x)
      [] s.k \in {"usize", "isize", "f32"} -> JNum(x)
      [] s.k = "string" -> JStr(x)
      [] s.k = "vec" -> JArr([i \in 1..Len(x) |-> Encode(s.of, x[i])])
      [] s.k = "map" -> JObj([key \in DOMAIN x |-> Encode(s.of, x[key])])
      [] s.k = "opt" -> IF x.some THEN Encode(s.of, x.v) ELSE JNull
      [] s.k = "struct" ->
            LET w == Written(s, x)
                idx(key) == CHOOSE i \in w : s.fields[i].key = key
            IN  JObj([key \in {s.fields[i].key : i \in w} |->
                        Encode(s.fields[idx(key)].shape, x[s.fields[idx(key)].name])])

(***************************************************************************)
(* serde::Deserialize from JSON (serde_json behind ureq's into_json).      *)
(* Decode yields [ok |-> TRUE, v |-> value] or [ok |-> FALSE].             *)
(*   ()      only null                                                     *)
(*   usize   a non-negative integer; isize, f32 any number of the model    *)
(*   Option  null is None, anything else must decode as the inner shape    *)
(*   Vec     an array whose every element decodes                          *)
(*   HashMap an object whose every value decodes                           *)
(*   struct  an object: a declared key must decode, a missing key is an    *)
(*           error unless its field is an Option, and a key the struct     *)
(*           does not declare is skipped (no deny_unknown_fields);         *)
(*           or an array with exactly one element per field, in order      *)
(*   tuple   (Deserialize_tuple) only such an array                        *)
(***************************************************************************)
DecodeOk(x) == [ok |-> TRUE, v |-> x]
DecodeFail == [ok |-> FALSE]

RECURSIVE Decode(_, _)
\* DecodeStructObj of a struct with #[serde(deny_unknown_fields)]
DecodeStructObjDeny(s, j) ==
    LET r == [i \in 1..Len(s.fields) |->
                IF s.fields[i].key \in Keys(j)
                THEN Decode(s.fields[i].shape, j.v[s.fields[i].key])
                ELSE IF s.fields[i].shape.k = "opt" THEN DecodeOk(None)
                     ELSE DecodeFail]
    IN  IF Keys(j) \subseteq FieldKeys(s) /\ \A i \in 1..Len(s.fields) : r[i].ok
        THEN DecodeOk([n \in FieldNames(s) |-> r[FieldOf(s, n)].v])
        ELSE DecodeFail

\* DecodeStructObj with a missing key an error for an Option field too
DecodeStructObjRequired(s, j) ==
    LET r == [i \in 1..Len(s.fields) |->
                IF s.fields[i].key \in Keys(j)
                THEN Decode(s.fields[i].shape, j.v[s.fields[i].key])
                ELSE DecodeFail]
    IN  IF \A i \in 1..Len(s.fields) : r[i].ok
        THEN DecodeOk([n \in FieldNames(s) |-> r[FieldOf(s, n)].v])
        ELSE DecodeFail

DecodeStructObj(s, j) ==
    LET r == [i \in 1..Len(s.fields) |->
                IF s.fields[i].key \in Keys(j)
                THEN Decode(s.fields[i].shape, j.v[s.fields[i].key])
                ELSE IF s.fields[i].shape.k = "opt" THEN DecodeOk(None)
                     ELSE DecodeFail]
    IN  IF \A i \in 1..Len(s.fields) : r[i].ok
        THEN DecodeOk([n \in FieldNames(s) |-> r[FieldOf(s, n)].v])
        ELSE DecodeFail

DecodeStructSeq(s, j) ==
    IF Len(j.v) # Len(s.fields) THEN DecodeFail
    ELSE LET r == [i \in 1..Len(s.fields) |-> Decode(s.fields[i].shape, j.v[i])]
         IN  IF \A i \in 1..Len(s.fields) : r[i].ok
             THEN DecodeOk([n \in FieldNames(s) |-> r[FieldOf(s, n)].v])
             ELSE DecodeFail

Decode(s, j) ==
    CASE s.k = "unit" -> IF j.t = "null" THEN DecodeOk(Unit) ELSE DecodeFail
      [] s.k = "bool" -> IF j.t = "bool" THEN DecodeOk(j.v) ELSE DecodeFail
      [] s.k = "usize" ->
            IF j.t = "num" /\ j.v >= 0 THEN DecodeOk(j.v) ELSE DecodeFail
      [] s.k \in {"isize", "f32"} ->
            IF j.t = "num" THEN DecodeOk(j.v) ELSE DecodeFail
      [] s.k = "string" -> IF j.t = "str" THEN DecodeOk(j.v) ELSE DecodeFail
      [] s.k = "opt" ->
            IF j.t = "null" THEN DecodeOk(None)
            ELSE LET r == Decode(s.of, j)
                 IN  IF r.ok THEN DecodeOk(Some(r.v)) ELSE DecodeFail
      [] s.k = "vec" ->
            IF j.t # "arr" THEN DecodeFail
            ELSE LET r == [i \in 1..Len(j.v) |-> Decode(s.of, j.v[i])]
                 IN  IF \A i \in 1..Len(j.v) : r[i].ok
                     THEN DecodeOk([i \in 1..Len(j.v) |-> r[i].v])
                     ELSE DecodeFail
      [] s.k = "map" ->
            IF j.t # "obj" THEN DecodeFail
            ELSE LET r == [key \in Keys(j) |-> Decode(s.of, j.v[key])]
                 IN  IF \A key \in Keys(j) : r[key].ok
                     THEN DecodeOk([key \in Keys(j) |-> r[key].v])
                     ELSE DecodeFail
      [] s.k = "struct" ->
            CASE j.t = "obj" -> DecodeStructObj(s, j)
              [] j.t = "arr" -> DecodeStructSeq(s, j)
              [] OTHER -> DecodeFail
      [] s.k = "tuple" ->
            IF j.t = "arr" THEN DecodeStructSeq(s, j) ELSE DecodeFail

(***************************************************************************)
(* The result structs of the catalog (#[derive(Deserialize)]).             *)
(***************************************************************************)
CardsModTime ==
    SStruct("CardsModTime",
        <<F("card_id", "cardId", SUsize), F("mod_", "mod", SUsize)>>)

CardsInfoField ==
    SStruct("CardsInfoField",
        <<F("value", "value", SString), F("order", "order", SUsize)>>)

CardsInfo ==
    SStruct("CardsInfo",
        <<F("answer", "answer", SString), F("question", "question", SString),
          F("deck_name", "deckName", SString), F("model_name", "modelName", SString),
          F("field_order", "fieldOrder", SUsize),
          F("fields", "fields", SMap(CardsInfoField)),
          F("css", "css", SString), F("card_id", "cardId", SUsize),
          F("interval", "interval", SUsize), F("note", "note", SUsize),
          F("ord", "ord", SUsize), F("type_field", "type", SUsize),
          F("queue", "queue", SUsize), F("due", "due", SUsize),
          F("reps", "reps", SUsize), F("lapses", "lapses", SUsize),
          F("left", "left", SUsize), F("mod_", "mod", SUsize)>>)

GetDeckConfigNew ==
    SStruct("GetDeckConfigNew",
        <<F("bury", "bury", SBool), F("delays", "delays", SVec(SF32)),
          F("initial_factor", "initialFactor", SUsize),
          F("ints", "ints", SVec(SUsize)), F("order", "order", SUsize),
          F("per_day", "perDay", SUsize)>>)

GetDeckConfigLapse ==
    SStruct("GetDeckConfigLapse",
        <<F("delays", "delays", SVec(SF32)),
          F("leech_action", "leechAction", SUsize),
          F("leech_fails", "leechFails", SUsize),
          F("min_int", "minInt", SUsize), F("mult", "mult", SF32)>>)

GetDeckConfigRev ==
    SStruct("GetDeckConfigRev",
        <<F("bury", "bury", SBool), F("ease4", "ease4", SF32),
          F("ivl_fct", "ivlFct", SF32), F("max_ivl", "maxIvl", SUsize),
          F("per_day", "perDay", SUsize), F("hard_factor", "hardFactor", SF32)>>)

\* the fields GetDeckConfig and SaveDeckConfig declare alike
DeckConfigFields(lapse, new, rev) ==
    <<F("autoplay", "autoplay", SBool),
      F("bury_interday_learning", "buryInterdayLearning", SBool),
      F("dyn_", "dyn", SBool), F("id", "id", SUsize),
      F("lapse", "lapse", lapse), F("max_taken", "maxTaken", SUsize),
      F("mod_", "mod", SUsize), F("name", "name", SString),
      F("new", "new", new),
      F("new_gather_priority", "newGatherPriority", SUsize),
      F("new_mix", "newMix", SUsize),
      F("new_per_day_minimum", "newPerDayMinimum", SUsize),
      F("new_sort_order", "newSortOrder", SUsize),
      F("replayq", "replayq", SBool), F("rev", "rev", rev),
      F("review_order", "reviewOrder", SUsize), F("timer", "timer", SUsize),
      F("usn", "usn", SIsize)>>

GetDeckConfig ==
    SStruct("GetDeckConfig",
        DeckConfigFields(GetDeckConfigLapse, GetDeckConfigNew, GetDeckConfigRev))

\* no rename_all: the keys are the Rust names
GetDeckStats ==
    SStruct("GetDeckStats",
        <<F("deck_id", "deck_id", SUsize), F("name", "name", SString),
          F("new_count", "new_count", SUsize),
          F("learn_count", "learn_count", SUsize),
          F("review_count", "review_count", SUsize),
          F("total_in_deck", "total_in_deck", SUsize)>>)

GuiCurrentCardFieldsFace ==
    SStruct("GuiCurrentCardFieldsFace",
        <<F("value", "value", SString), F("order", "order", SIsize)>>)

GuiCurrentCardFields ==
    SStruct("GuiCurrentCardFields",
        <<F("front", "Front", GuiCurrentCardFieldsFace),
          F("back", "Back", GuiCurrentCardFieldsFace)>>)

GuiCurrentCard ==
    SStruct("GuiCurrentCard",
        <<F("answer", "answer", SString), F("question", "question", SString),
          F("deck_name", "deckName", SString), F("model_name", "modelName", SString),
          F("field_order", "fieldOrder", SIsize),
          F("fields", "fields", GuiCurrentCardFields),
          F("template", "template", SString), F("card_id", "cardId", SIsize),
          F("buttons", "buttons", SVec(SIsize)),
          F("next_reviews", "nextReviews", SVec(SString))>>)

(***************************************************************************)
(* The parameter structs (#[derive(Serialize)]) that nest other structs.   *)
(***************************************************************************)
SaveDeckConfigNew == SStruct("SaveDeckConfigNew", GetDeckConfigNew.fields)
SaveDeckConfigLapse == SStruct("SaveDeckConfigLapse", GetDeckConfigLapse.fields)
SaveDeckConfigRev == SStruct("SaveDeckConfigRev", GetDeckConfigRev.fields)
SaveDeckConfig ==
    SStruct("SaveDeckConfig",
        DeckConfigFields(SaveDeckConfigLapse, SaveDeckConfigNew, SaveDeckConfigRev))

GuiAddCardsNoteFields ==
    SStruct("GuiAddCardsNoteFields",
        <<F("text", "Text", SString), F("extra", "Extra", SString)>>)

GuiAddCardsNotePicture ==
    SStruct("GuiAddCardsNotePicture",
        <<F("url", "url", SString), F("filename", "filename", SString),
          F("fields", "fields", SVec(SString))>>)

GuiAddCardsNote ==
    SStruct("GuiAddCardsNote",
        <<F("deck_name", "deckName", SString), F("model_name", "modelName", SString),
          F("fields", "fields", GuiAddCardsNoteFields),
          F("tags", "tags", SVec(SString)),
          F("picture", "picture", SVec(GuiAddCardsNotePicture))>>)

(***************************************************************************)
(* The catalog: one entry per wrapper function.                            *)
(*   fn      the wrapper                                                   *)
(*   action  the action name it passes to anki_connect_send                *)
(*   arg     TRUE when its signature takes a parameter struct              *)
(*   P       the shape of its parameter struct, () when it takes none      *)
(*   some    TRUE when it passes Some(params), FALSE when it passes None   *)
(*   R       the shape of the result it declares                           *)
(***************************************************************************)
\* a wrapper fn(params: P) -> Result<R> passing Some(params)
With(fn, action, P, R) ==
    [fn |-> fn, action |-> action, arg |-> TRUE, P |-> P, some |-> TRUE, R |-> R]
\* a wrapper fn() -> Result<R> passing None with P = ()
Without(fn, action, R) ==
    [fn |-> fn, action |-> action, arg |-> FALSE, P |-> SUnit, some |-> FALSE, R |-> R]

\* struct { cards: Vec<usize> }
CardsParams(name) == SStruct(name, <<F("cards", "cards", SVec(SUsize))>>)

CardActions ==
    { With("get_ease_factors", "getEaseFactors",
           CardsParams("GetEaseFactorsParams"), SVec(SUsize)),
      With("set_ease_factors", "setEaseFactors",
           SStruct("SetEaseFactorsParams",
               <<F("cards", "cards", SVec(SUsize)),
                 F("ease_factors", "easeFactors", SVec(SUsize))>>),
           SVec(SBool)),
      With("set_specific_value_of_card", "setSpecificValueOfCard",
           SStruct("SetSpecificValueOfCardParams",
               <<F("card", "card", SUsize), F("keys", "keys", SVec(SString)),
                 F("new_values", "newValues", SVec(SString))>>),
           SVec(SBool)),
      With("suspend", "suspend", CardsParams("SuspendParams"), SBool),
      With("unsuspend", "unsuspend", CardsParams("UnsuspendParams"), SBool),
      With("suspended", "suspended",
           SStruct("SuspendedParams", <<F("card", "card", SUsize)>>), SBool),
      With("are_suspended", "areSuspended",
           CardsParams("AreSuspendedParams"), SVec(SBool)),
      With("are_due", "areDue", CardsParams("AreDueParams"), SVec(SBool)),
      With("get_intervals", "getIntervals",
           CardsParams("GetIntervalsParams"), SVec(SIsize)),
      With("get_intervals_alternative", "getIntervals",
           SStruct("GetIntervalsAlternativeParams",
               <<F("cards", "cards", SVec(SUsize)),
                 F("complete", "complete", SBool)>>),
           SVec(SVec(SIsize))),
      With("find_cards", "findCards",
           SStruct("FindCardsParams", <<F("query", "query", SString)>>),
           SVec(SUsize)),
      With("cards_to_notes", "cardsToNotes",
           CardsParams("CardsToNotesParams"), SVec(SUsize)),
      With("cards_mod_times", "cardsModTime",
           CardsParams("CardsModTimeParams"), SVec(CardsModTime)),
      With("cards_info", "cardsInfo",
           CardsParams("CardsInfoParams"), SVec(CardsInfo)),
      With("forget_cards", "forgetCards",
           CardsParams("ForgetCardsParams"), SUnit),
      With("relearn_cards", "relearnCards",
           CardsParams("RelearnCardsParams"), SUnit) }

DeckActions ==
    { Without("deck_names", "deckNames", SVec(SString)),
      Without("deck_name_and_ids", "deckNamesAndIds", SMap(SUsize)),
      With("get_decks", "getDecks",
           CardsParams("GetDecksParams"), SMap(SVec(SUsize))),
      With("create_deck", "createDeck",
           SStruct("CreateDeckParams", <<F("deck", "deck", SString)>>), SUsize),
      With("change_deck", "changeDeck",
           SStruct("ChangeDeckParams",
               <<F("cards", "cards", SVec(SUsize)), F("deck", "deck", SString)>>),
           SUnit),
      With("delete_decks", "deleteDecks",
           SStruct("DeleteDecksParams",
               <<F("decks", "decks", SVec(SString)),
                 F("cards_too", "cardsToo", SBool)>>),
           SUnit),
      With("get_deck_config", "getDeckConfig",
           SStruct("GetDeckConfigParams", <<F("deck", "deck", SString)>>),
           GetDeckConfig),
      With("save_deck_config", "saveDeckConfig",
           SStruct("SaveDeckConfigParams",
               <<F("config", "config", SaveDeckConfig)>>),
           SBool),
      With("save_deck_config_id", "setDeckConfigId",
           SStruct("SaveDeckConfigIdParams",
               <<F("decks", "decks", SVec(SString)),
                 F("config_id", "configId", SUsize)>>),
           SBool),
      With("clone_deck_config_id", "cloneDeckConfigId",
           SStruct("CloneDeckConfigIdParams",
               <<F("name", "name", SString),
                 F("clone_from", "cloneFrom", SUsize)>>),
           SUsize),
      With("remove_deck_config_id", "removeDeckConfigId",
           SStruct("RemoveDeckConfigIdParams",
               <<F("config_id", "configId", SUsize)>>),
           SBool),
      With("get_deck_stats", "getDeckStats",
           SStruct("GetDeckStatsParams", <<F("decks", "decks", SVec(SString))>>),
           SMap(GetDeckStats)) }

GraphicalActions ==
    { With("gui_browse", "guiBrowse",
           SStruct("GuiBrowseParams", <<F("query", "query", SString)>>),
           SVec(SUsize)),
      Without("gui_selected_notes", "guiSelectedNotes", SVec(SUsize)),
      With("gui_add_cards", "guiAddCards",
           SStruct("GuiAddCardsParams", <<F("note", "note", GuiAddCardsNote)>>),
           SUsize),
      With("gui_edit_note", "guiEditNote",
           SStruct("GuiEditNoteParams", <<F("note", "note", SUsize)>>), SUnit),
      Without("gui_current_card", "guiCurrentCard", GuiCurrentCard),
      Without("gui_start_card_timer", "guiStartCardTimer", SUnit),
      Without("gui_show_question", "guiShowQuestion", SUnit),
      Without("gui_show_answer", "guiShowAnswer", SUnit),
      With("gui_answer_card", "guiAnswerCard",
           SStruct("GuiAnswerCardParams", <<F("cards", "cards", SString)>>),
           SBool),
      With("gui_deck_overview", "guiDeckOverview",
           SStruct("GuiDeckOverviewParams", <<F("name", "name", SString)>>),
           SBool),
      Without("gui_deck_browser", "guiDeckBrowser", SUnit),
      With("gui_deck_review", "guiDeckReview",
           SStruct("GuiDeckReviewParams", <<F("name", "name", SString)>>),
           SBool),
      Without("gui_exit_anki", "guiExitAnki", SUnit),
      Without("gui_check_database", "guiCheckDatabase", SBool) }

Catalog == CardActions \cup DeckActions \cup GraphicalActions

(***************************************************************************)
(* The typed requests: the structs that implement AnkiRequest, each        *)
(* binding its Response type, its ACTION and its VERSION.                  *)
(***************************************************************************)
CardReviewsResponse ==
    STuple("CardReviewsResponse",
        <<F("review_time", "review_time", SUsize), F("card_id", "card_id", SUsize),
          F("usn", "usn", SI64), F("button_pressed", "button_pressed", SUsize),
          F("new_interval", "new_interval", SIsize),
          F("previous_interval", "previous_interval", SIsize),
          F("new_factor", "new_factor", SUsize),
          F("review_duration", "review_duration", SUsize),
          F("review_type", "review_type", SUsize)>>)

GetReviewsOfCardsResponse ==
    SStruct("GetReviewsOfCardsResponse",
        <<F("id", "id", SU64), F("usn", "usn", SI64), F("ease", "ease", SUsize),
          F("ivl", "ivl", SIsize), F("last_ivl", "lastIvl", SIsize),
          F("factor", "factor", SUsize), F("time", "time", SUsize)>>)

NotesInfoFieldsResponse ==
    SStruct("NotesInfoFieldsResponse",
        <<F("value", "value", SString), F("order", "order", SUsize)>>)

NotesInfoResponse ==
    SStruct("NotesInfoResponse",
        <<F("note_id", "noteId", SU64), F("model_name", "modelName", SString),
          F("tags", "tags", SVec(SString)),
          F("fields", "fields", SMap(NotesInfoFieldsResponse))>>)

NoteMedia ==
    SStruct("NoteMedia",
        <<FSkip("url", "url", SOpt(SString)), FSkip("path", "path", SOpt(SString)),
          FSkip("data", "data", SOpt(SString)), F("filename", "filename", SString),
          FSkip("skip_hash", "skip_hash", SOpt(SString)),
          F("fields", "fields", SVec(SString))>>)

UpdateNoteFields ==
    SStruct("UpdateNoteFields",
        <<F("id", "id", SUsize), F("fields", "fields", SMap(SString)),
          FSkip("audio", "audio", SOpt(SVec(NoteMedia))),
          FSkip("video", "video", SOpt(SVec(NoteMedia))),
          FSkip("picture", "picture", SOpt(SVec(NoteMedia)))>>)

UpdateNoteFieldsRequest ==
    SStruct("UpdateNoteFieldsRequest", <<F("note", "note", UpdateNoteFields)>>)

\* impl AnkiRequest for P { type Response = R; const ACTION; const VERSION }
Request(P, R, action, version) ==
    [fn |-> P.name, action |-> action, version |-> version,
     arg |-> TRUE, P |-> P, some |-> TRUE, R |-> R]

Requests ==
    { Request(SStruct("AreDueRequest", <<F("cards", "cards", SVec(SUsize))>>),
              SVec(SBool), "areDue", 6),
      Request(SStruct("GuiAnswerCardRequest", <<F("ease", "ease", SUsize)>>),
              SBool, "guiAnswerCard", 6),
      Request(SStruct("CardReviewsRequest",
                  <<F("deck", "deck", SString), F("start_id", "startID", SUsize)>>),
              SVec(CardReviewsResponse), "cardReviews", 6),
      Request(SStruct("GetReviewsOfCardsRequest",
                  <<F("cards", "cards", SVec(SU64))>>),
              SMap(SVec(GetReviewsOfCardsResponse)), "getReviewsOfCards", 6),
      Request(SStruct("NotesInfoRequest", <<F("notes", "notes", SVec(SU64))>>),
              SVec(NotesInfoResponse), "notesInfo", 6),
      Request(UpdateNoteFieldsRequest, SUnit, "updateNoteFields", 6) }

\* the entry of a wrapper or of a typed request
Wrapper(fn) == CHOOSE w \in Catalog \cup Requests : w.fn = fn

(***************************************************************************)
(* The envelopes and the error enum of lib.rs.                             *)
(***************************************************************************)
\* version: 6
ProtocolVersion == 6

\* the address every request is posted to
Endpoint == "http://localhost:8765"

\* AnkiConnectRequest without skip_serializing_if on params
AnkiConnectRequestNoSkip(P) ==
    SStruct("AnkiConnectRequest",
        <<F("action", "action", SString), F("version", "version", SUsize),
          F("params", "params", SOpt(P))>>)

\* struct AnkiConnectRequest<'a, P>
AnkiConnectRequest(P) ==
    SStruct("AnkiConnectRequest",
        <<F("action", "action", SString), F("version", "version", SUsize),
          FSkip("params", "params", SOpt(P))>>)

\* struct AnkiConnectResponse<R>
AnkiConnectResponse(R) ==
    SStruct("AnkiConnectResponse",
        <<F("result", "result", SOpt(R)), F("error", "error", SOpt(SString))>>)

\* enum Error
Ureq(cause) == [tag |-> "Ureq", cause |-> cause]
Serde(io) == [tag |-> "Serde", io |-> io]
Anki(msg) == [tag |-> "Anki", msg |-> msg]

\* Result<R>: what a call hands back, a value and an error side.  Ok and Err
\* fill one side; NoOutcome is a call that has not returned.
Ok(x) == [ok |-> Some(x), err |-> None]
Err(e) == [ok |-> None, err |-> Some(e)]
NoOutcome == [ok |-> None, err |-> None]

(***************************************************************************)
(* The transport, as ureq behaves behind send_json and into_json.          *)
(***************************************************************************)
\* std::io::Error
IoError(kind, msg) == [kind |-> kind, msg |-> msg]

\* the messages serde_json gives its three kinds of failure
SyntaxMsg == "Failed to read JSON: expected value"
EofMsg == "Failed to read JSON: EOF while parsing"
DataMsg == "Failed to read JSON: invalid type, invalid length or missing field"
IoMsg == "Failed to read JSON: io error"

\* Post with the destination taken from the parameters when there are any
PostWhereParamsSay(body) ==
    <<[method |-> "POST",
       url |-> IF "params" \in Keys(body) THEN "http://localhost:8766" ELSE Endpoint,
       body |-> body]>>

\* Post issuing the request a second time
PostTwice(body) ==
    <<[method |-> "POST", url |-> Endpoint, body |-> body],
      [method |-> "POST", url |-> Endpoint, body |-> body]>>

\* the request the dispatcher posts: lines 110-111 issue it once
Post(body) == <<[method |-> "POST", url |-> Endpoint, body |-> body]>>

\* Response::into_json::<AnkiConnectResponse<R>>(): the body is read and
\* parsed; every failure is an io::Error, of kind TimedOut for a read
\* timeout and InvalidData for everything else
IntoJson(R, body) ==
    CASE body.b = "io" ->
            [ok |-> FALSE,
             err |-> IF body.kind = "TimedOut"
                     THEN IoError("TimedOut", "timed out reading response")
                     ELSE IoError("InvalidData", IoMsg)]
      [] body.b = "text" ->
            [ok |-> FALSE,
             err |-> IoError("InvalidData",
                        IF body.why = "eof" THEN EofMsg ELSE SyntaxMsg)]
      [] body.b = "json" ->
            LET r == Decode(AnkiConnectResponse(R), body.v)
            IN  IF r.ok THEN [ok |-> TRUE, v |-> r.v]
                ELSE [ok |-> FALSE, err |-> IoError("InvalidData", DataMsg)]

(***************************************************************************)
(* The state: what each caller's call holds.                               *)
(***************************************************************************)
Callers == 1..NumCallers

VARIABLES
    pc,         \* per caller: "idle", "awaiting" (inside send_json), "returned"
    fn,         \* the wrapper of the call, "" before the first
    arg,        \* the parameter value the caller passed
    request,    \* the HTTP request of the call
    sends,      \* how many HTTP requests were issued for the caller
    calls,      \* how many calls the caller has made
    transport,  \* what the transport answered
    envelope,   \* the decoded AnkiConnectResponse, None when there is none
    outcome,    \* what the call returned
    roundtrip,  \* a value on its way through serialisation and back
    mode,       \* the build: "blocking" or "nonblocking"
    thread      \* per caller: the thread its calls run on

vars == <<pc, fn, arg, request, sends, calls, transport, envelope, outcome,
          roundtrip, mode, thread>>

(***************************************************************************)
(* anki_connect_send.                                                      *)
(***************************************************************************)
\* Data with a version that depends on the parameters
DataVersionOfParams(action, params) ==
    [action |-> action,
     version |-> IF params.some THEN ProtocolVersion + 1 ELSE ProtocolVersion,
     params |-> params]

\* lines 103-107: the request envelope
Data(action, params) ==
    [action |-> action, version |-> ProtocolVersion, params |-> params]

\* the envelope of a typed request: its action is the request's ACTION and
\* its version the request's VERSION
RequestData(q, params) ==
    [action |-> q.action, version |-> q.version, params |-> Some(params)]

\* Resolve with the result examined before the error
ResolveResultFirst(R, response) ==
    IF response.result.some THEN Ok(response.result.v)
    ELSE IF response.error.some THEN Err(Anki(response.error.v))
    ELSE Ok(DefaultOf(R))

\* Resolve failing when there is neither an error nor a result
ResolveNoResultFails(R, response) ==
    IF response.error.some THEN Err(Anki(response.error.v))
    ELSE IF response.result.some THEN Ok(response.result.v)
    ELSE Err(Anki("no result"))

\* Resolve filling the two sides independently of each other
ResolveBothSides(R, response) ==
    [ok |-> response.result,
     err |-> IF response.error.some THEN Some(Anki(response.error.v)) ELSE None]

\* Resolve with a missing result told apart from every value of the shape:
\* the call fails with an error of its own
ResolveMissingTold(R, response) ==
    IF response.error.some THEN Err(Anki(response.error.v))
    ELSE IF response.result.some THEN Ok(response.result.v)
    ELSE Err(Serde(IoError("InvalidData", "missing result")))

\* Resolve never looking at the result
ResolveDefaultOnly(R, response) ==
    IF response.error.some THEN Err(Anki(response.error.v))
    ELSE Ok(DefaultOf(R))

\* lines 115-121: the outcome of a decoded response
Resolve(R, response) ==
    IF response.error.some THEN Err(Anki(response.error.v))
    ELSE IF response.result.some THEN Ok(response.result.v)
    ELSE Ok(DefaultOf(R))

\* OnResponse returning one fixed io::Error for every failure of into_json
OnResponseFlatError(R, body) ==
    LET r == IntoJson(R, body)
    IN  IF r.ok
        THEN [envelope |-> Some(r.v), outcome |-> Resolve(R, r.v)]
        ELSE [envelope |-> None,
              outcome |-> Err(Serde(IoError("InvalidData", "deserialization error")))]

\* OnResponse with a response that does not decode taken for an empty one
OnResponseSwallows(R, body) ==
    LET r == IntoJson(R, body)
    IN  IF r.ok
        THEN [envelope |-> Some(r.v), outcome |-> Resolve(R, r.v)]
        ELSE [envelope |-> None, outcome |-> Ok(DefaultOf(R))]

\* OnResponse resolving from a static shared by all calls: while another
\* call's response is held there, the outcome is taken from that one
OnResponseShared(R, body) ==
    LET r == IntoJson(R, body)
        held == {d \in Callers : envelope[d].some}
    IN  IF r.ok
        THEN [envelope |-> Some(r.v),
              outcome |-> IF held # {}
                          THEN Resolve(R, envelope[CHOOSE d \in held : TRUE].v)
                          ELSE Resolve(R, r.v)]
        ELSE [envelope |-> None, outcome |-> Err(Serde(r.err))]

\* OnResponse looking at the error key before the result is decoded
OnResponseErrorFirst(R, body) ==
    LET r == IntoJson(R, body)
    IN  IF body.b = "json" /\ body.v.t = "obj" /\ "error" \in Keys(body.v)
           /\ body.v.v["error"].t = "str"
        THEN [envelope |-> None, outcome |-> Err(Anki(body.v.v["error"].v))]
        ELSE IF r.ok
        THEN [envelope |-> Some(r.v), outcome |-> Resolve(R, r.v)]
        ELSE [envelope |-> None, outcome |-> Err(Serde(r.err))]

\* lines 113-121: send_json returned a response
OnResponse(R, body) ==
    LET r == IntoJson(R, body)
    IN  IF r.ok
        THEN [envelope |-> Some(r.v), outcome |-> Resolve(R, r.v)]
        ELSE [envelope |-> None, outcome |-> Err(Serde(r.err))]

\* OnSendError taking the failure for a reason to go on waiting: the call
\* has no outcome
OnSendErrorWaitsOn(R, cause) ==
    [envelope |-> None, outcome |-> NoOutcome]

\* OnSendError reading the response that comes with a status error
OnSendErrorDecodesBody(R, cause) ==
    IF cause.e = "Status" THEN OnResponse(R, cause.body)
    ELSE [envelope |-> None, outcome |-> Err(Ureq(cause))]

\* line 112: send_json failed; the error is boxed into Error::Ureq and
\* returned by `?`
OnSendError(R, cause) ==
    [envelope |-> None, outcome |-> Err(Ureq(cause))]

(***************************************************************************)
(* What the remote end can answer: the inputs of the model.                *)
(***************************************************************************)
\* all sequences over S of length at most n
SeqsUpTo(S, n) == UNION {[1..m -> S] : m \in 0..n}

\* all objects over a set of keys and a set of values
Objects(keys, vals) == {JObj(o) : o \in UNION {[K -> vals] : K \in SUBSET keys}}

\* objects shaped like, or unlike, a CardsModTime
ModTimeObjects ==
    Objects({"cardId", "mod", "extra"}, {JNum(1)})
    \cup {JObj([k \in {"cardId", "mod"} |-> IF k = "mod" THEN JNum(2) ELSE JStr("a")])}

\* what the remote end sends for a card: one with every field empty or
\* zero, one with none
CardObjects ==
    {Encode(GuiCurrentCard, DefaultOf(GuiCurrentCard)),
     Encode(GuiCurrentCard, SampleOf(GuiCurrentCard))}

\* the values a response carries under "result"
ResultValues ==
    {JNull, JBool(TRUE), JBool(FALSE), JNum(0), JNum(1), JNum(-1), JStr("a")}
    \cup {JArr(a) : a \in SeqsUpTo({JNum(1), JNum(2)}, MaxLen)}
    \cup {JArr(a) : a \in SeqsUpTo({JNull, JBool(TRUE)}, MaxLen)}
    \cup ModTimeObjects
    \cup {JArr(<<o>>) : o \in ModTimeObjects}
    \cup CardObjects
    \cup {JArr(<<JNum(1), JNum(2), JNum(3)>>), JArr(<<JStr("a")>>),
          JArr(<<JNum(-1)>>), JArr(<<JArr(<<>>)>>),
          JArr(<<JArr(<<JNum(-1), JNum(2)>>)>>)}

\* the values a response carries under "error"
ErrorValues == {JNull, JStr("deck was not found")}

\* response bodies: a read that fails, bytes that are not JSON, a JSON
\* value that is no object, an error that is no string, and objects with
\* or without each of the two keys
Bodies ==
    {[b |-> "io", kind |-> k] : k \in {"TimedOut", "ConnectionReset"}}
    \cup {[b |-> "text", why |-> w] : w \in {"syntax", "eof"}}
    \cup {[b |-> "json", v |-> JNum(5)]}
    \cup {[b |-> "json", v |-> JObj(<<>>)]}
    \cup {[b |-> "json", v |-> JObj([k \in {"error"} |-> JNum(5)])]}
    \cup {[b |-> "json", v |-> JObj([k \in {"result"} |-> r])] : r \in ResultValues}
    \cup {[b |-> "json", v |-> JObj([k \in {"error"} |-> e])] : e \in ErrorValues}
    \cup {[b |-> "json",
           v |-> JObj([k \in {"result", "error"} |->
                        IF k = "result" THEN r ELSE e])] :
            r \in ResultValues, e \in ErrorValues}

\* ureq::Error: the request did not go through, or the server answered
\* with a status of 400 or more (the response comes with the error)
SendErrors ==
    {[e |-> "Transport", kind |-> k] : k \in {"ConnectionFailed", "Io"}}
    \cup {[e |-> "Status", code |-> 500,
           body |-> [b |-> "json",
                     v |-> JObj([k \in {"result", "error"} |->
                                  IF k = "result" THEN JNull
                                  ELSE JStr("deck was not found")])]]}

\* the parameter values a caller passes to a wrapper
ArgValues(w) ==
    IF w.arg
    THEN {DefaultOf(w.P), SampleOf(w.P)}
         \cup {[SampleOf(w.P) EXCEPT ![n] = FALSE] :
                n \in {m \in FieldNames(w.P) :
                        w.P.fields[FieldOf(w.P, m)].shape = SBool}}
    ELSE {Unit}

(***************************************************************************)
(* The initial state.                                                      *)
(***************************************************************************)
NoRequest == [method |-> "", url |-> "", body |-> JNull]
Pending == [kind |-> "pending"]
\* no value is on its way
NoRoundTrip == [at |-> "none"]

Init ==
    /\ pc = [c \in Callers |-> "idle"]
    /\ fn = [c \in Callers |-> ""]
    /\ arg = [c \in Callers |-> Unit]
    /\ request = [c \in Callers |-> NoRequest]
    /\ sends = [c \in Callers |-> 0]
    /\ calls = [c \in Callers |-> 0]
    /\ transport = [c \in Callers |-> Pending]
    /\ envelope = [c \in Callers |-> None]
    /\ outcome = [c \in Callers |-> NoOutcome]
    /\ roundtrip = NoRoundTrip
    /\ mode = "blocking"
    /\ thread = [c \in Callers |-> c]

\* Blocked for a dispatcher that never holds the thread
BlockedNever(c) == FALSE

\* anki_connect_send is a plain fn around ureq's blocking send_json and
\* into_json (lines 99, 109-113): in the blocking build the thread of a
\* call is inside it until the transport is done, and nothing else that
\* is scheduled on that thread runs
Blocked(c) ==
    /\ mode = "blocking"
    /\ \E d \in Callers \ {c} : thread[d] = thread[c] /\ pc[d] = "awaiting"

(***************************************************************************)
(* Caller c calls wrapper w with x: the wrapper calls anki_connect_send,   *)
(* which builds the envelope and posts it (lines 103-111).                 *)
(***************************************************************************)
Invoke(c, w, x) ==
    /\ pc[c] = "idle"
    /\ ~Blocked(c)
    /\ calls[c] < MaxCalls
    /\ LET params == IF w.some THEN Some(x) ELSE None
           posted == Post(Encode(AnkiConnectRequest(w.P), Data(w.action, params)))
       IN  /\ request' = [request EXCEPT ![c] = posted[Len(posted)]]
           /\ sends' = [sends EXCEPT ![c] = @ + Len(posted)]
    /\ pc' = [pc EXCEPT ![c] = "awaiting"]
    /\ fn' = [fn EXCEPT ![c] = w.fn]
    /\ arg' = [arg EXCEPT ![c] = x]
    /\ calls' = [calls EXCEPT ![c] = @ + 1]
    /\ transport' = [transport EXCEPT ![c] = Pending]
    /\ envelope' = [envelope EXCEPT ![c] = None]
    /\ outcome' = [outcome EXCEPT ![c] = NoOutcome]
    /\ UNCHANGED <<roundtrip, mode, thread>>

(***************************************************************************)
(* Caller c sends the typed request q with the value x: the envelope is    *)
(* built from the constants q binds and posted.                            *)
(***************************************************************************)
Dispatch(c, q, x) ==
    /\ pc[c] = "idle"
    /\ ~Blocked(c)
    /\ calls[c] < MaxCalls
    /\ LET posted == Post(Encode(AnkiConnectRequest(q.P), RequestData(q, x)))
       IN  /\ request' = [request EXCEPT ![c] = posted[Len(posted)]]
           /\ sends' = [sends EXCEPT ![c] = @ + Len(posted)]
    /\ pc' = [pc EXCEPT ![c] = "awaiting"]
    /\ fn' = [fn EXCEPT ![c] = q.fn]
    /\ arg' = [arg EXCEPT ![c] = x]
    /\ calls' = [calls EXCEPT ![c] = @ + 1]
    /\ transport' = [transport EXCEPT ![c] = Pending]
    /\ envelope' = [envelope EXCEPT ![c] = None]
    /\ outcome' = [outcome EXCEPT ![c] = NoOutcome]
    /\ UNCHANGED <<roundtrip, mode, thread>>

(***************************************************************************)
(* send_json fails: the call returns (line 112).                           *)
(***************************************************************************)
SendFails(c, cause) ==
    /\ pc[c] = "awaiting"
    /\ LET r == OnSendError(Wrapper(fn[c]).R, cause)
       IN  /\ envelope' = [envelope EXCEPT ![c] = r.envelope]
           /\ outcome' = [outcome EXCEPT ![c] = r.outcome]
    /\ transport' = [transport EXCEPT ![c] = [kind |-> "err", cause |-> cause]]
    /\ pc' = [pc EXCEPT ![c] = "returned"]
    /\ UNCHANGED <<fn, arg, request, sends, calls, roundtrip, mode, thread>>

(***************************************************************************)
(* send_json returns a response: it is decoded and resolved, and the call  *)
(* returns (lines 113-121).                                                *)
(***************************************************************************)
Responds(c, body) ==
    /\ pc[c] = "awaiting"
    /\ LET r == OnResponse(Wrapper(fn[c]).R, body)
       IN  /\ envelope' = [envelope EXCEPT ![c] = r.envelope]
           /\ outcome' = [outcome EXCEPT ![c] = r.outcome]
    /\ transport' = [transport EXCEPT ![c] = [kind |-> "ok", body |-> body]]
    /\ pc' = [pc EXCEPT ![c] = "returned"]
    /\ UNCHANGED <<fn, arg, request, sends, calls, roundtrip, mode, thread>>

(***************************************************************************)
(* The caller takes the outcome; the values of the call (data, response)   *)
(* were owned by it and are gone, and nothing of it is left in the         *)
(* library.                                                                *)
(***************************************************************************)
Drop(c) ==
    /\ pc[c] = "returned"
    /\ ~Blocked(c)
    /\ pc' = [pc EXCEPT ![c] = "idle"]
    /\ fn' = [fn EXCEPT ![c] = ""]
    /\ arg' = [arg EXCEPT ![c] = Unit]
    /\ request' = [request EXCEPT ![c] = NoRequest]
    /\ transport' = [transport EXCEPT ![c] = Pending]
    /\ envelope' = [envelope EXCEPT ![c] = None]
    /\ outcome' = [outcome EXCEPT ![c] = NoOutcome]
    /\ UNCHANGED <<sends, calls, roundtrip, mode, thread>>

\* one call site issuing its calls one after the other, over the whole
\* catalog and every answer of the remote end
Next ==
    \/ \E w \in Catalog : \E x \in ArgValues(w) : Invoke(1, w, x)
    \/ \E cause \in SendErrors : SendFails(1, cause)
    \/ \E body \in Bodies : Responds(1, body)
    \/ Drop(1)

Spec == Init /\ [][Next]_vars

(***************************************************************************)
(* The requests of both catalogs, the wrappers and the typed requests,     *)
(* against a few answers.                                                  *)
(***************************************************************************)
ContractBodies ==
    {[b |-> "text", why |-> "syntax"]}
    \cup {[b |-> "json",
           v |-> JObj([k \in {"result", "error"} |->
                        IF k = "result" THEN r ELSE e])] :
            r \in {JNull, JArr(<<JBool(TRUE)>>)}, e \in ErrorValues}

NextContracts ==
    \/ \E w \in Catalog : \E x \in ArgValues(w) : Invoke(1, w, x)
    \/ \E q \in Requests : \E x \in ArgValues(q) : Dispatch(1, q, x)
    \/ \E cause \in SendErrors : SendFails(1, cause)
    \/ \E body \in ContractBodies : Responds(1, body)
    \/ Drop(1)

SpecContracts == Init /\ [][NextContracts]_vars

(***************************************************************************)
(* Several callers at once: anki_connect_send takes no lock and every      *)
(* caller's call may be anywhere between its steps while another's runs.   *)
(***************************************************************************)
ConcurrentWrappers == {Wrapper("find_cards"), Wrapper("forget_cards")}

ConcurrentBodies ==
    {[b |-> "json",
      v |-> JObj([k \in {"result", "error"} |-> IF k = "result" THEN r ELSE e])] :
        r \in {JNull, JArr(<<JNum(1), JNum(2)>>)}, e \in ErrorValues}

NextConcurrent ==
    \E c \in Callers :
        \/ \E w \in ConcurrentWrappers : Invoke(c, w, SampleOf(w.P))
        \/ SendFails(c, [e |-> "Transport", kind |-> "ConnectionFailed"])
        \/ \E body \in ConcurrentBodies : Responds(c, body)
        \/ Drop(c)

SpecConcurrent == Init /\ [][NextConcurrent]_vars

(***************************************************************************)
(* The same callers with a transport that ends every exchange: send_json   *)
(* and into_json return, with a response or with a failure (ureq gives up  *)
(* on a connection that does not answer).                                  *)
(***************************************************************************)
FairBodies ==
    {[b |-> "json",
      v |-> JObj([k \in {"result", "error"} |-> IF k = "result" THEN r ELSE JNull])] :
        r \in {JNull, JArr(<<JNum(1), JNum(2)>>)}}

Completes(c) ==
    \/ SendFails(c, [e |-> "Transport", kind |-> "ConnectionFailed"])
    \/ \E body \in FairBodies : Responds(c, body)

NextFair ==
    \E c \in Callers :
        \/ Invoke(c, Wrapper("find_cards"), SampleOf(Wrapper("find_cards").P))
        \/ Completes(c)
        \/ Drop(c)

SpecFair ==
    Init /\ [][NextFair]_vars /\ \A c \in Callers : WF_vars(Completes(c))

(***************************************************************************)
(* The two builds, with every caller a task of one thread.  In the         *)
(* non-blocking build (#[maybe_async::maybe_async] pub async fn, the call   *)
(* awaited) a call that waits for the transport yields the thread; in the  *)
(* blocking build it holds it.                                             *)
(***************************************************************************)
Modes == {"blocking", "nonblocking"}

InitModes ==
    /\ pc = [c \in Callers |-> "idle"]
    /\ fn = [c \in Callers |-> ""]
    /\ arg = [c \in Callers |-> Unit]
    /\ request = [c \in Callers |-> NoRequest]
    /\ sends = [c \in Callers |-> 0]
    /\ calls = [c \in Callers |-> 0]
    /\ transport = [c \in Callers |-> Pending]
    /\ envelope = [c \in Callers |-> None]
    /\ outcome = [c \in Callers |-> NoOutcome]
    /\ roundtrip = NoRoundTrip
    /\ mode \in Modes
    /\ thread = [c \in Callers |-> 1]

SpecModes == InitModes /\ [][NextConcurrent]_vars

(***************************************************************************)
(* Serialisation and back, for the structs that derive both Serialize and  *)
(* Deserialize.                                                            *)
(***************************************************************************)
RoundTripShapes ==
    {GuiAddCardsNote, GuiAddCardsNoteFields, GuiAddCardsNotePicture,
     GuiCurrentCardFields, GuiCurrentCardFieldsFace,
     UpdateNoteFieldsRequest, UpdateNoteFields, NoteMedia}

\* values of a shape: its default, and a sample with one part of it varied
RECURSIVE Variants(_)
Variants(s) ==
    CASE s.k = "unit" -> {Unit}
      [] s.k = "bool" -> {FALSE, TRUE}
      [] s.k = "usize" -> {0, 1}
      [] s.k \in {"isize", "f32"} -> {0, 1, -1}
      [] s.k = "string" -> {"", "a"}
      [] s.k = "opt" -> {None} \cup {Some(v) : v \in Variants(s.of)}
      [] s.k = "vec" ->
            {<<>>} \cup
            UNION {{[i \in 1..n |-> IF i = n THEN v ELSE SampleOf(s.of)] :
                        v \in Variants(s.of)} : n \in 1..MaxItems}
      [] s.k = "map" ->
            {<<>>} \cup {[key \in {"a"} |-> v] : v \in Variants(s.of)}
      [] s.k = "struct" ->
            {DefaultOf(s)} \cup
            UNION {{[SampleOf(s) EXCEPT ![n] = v] :
                        v \in Variants(s.fields[FieldOf(s, n)].shape)} :
                    n \in FieldNames(s)}

InitRoundTrip ==
    /\ pc = [c \in Callers |-> "idle"]
    /\ fn = [c \in Callers |-> ""]
    /\ arg = [c \in Callers |-> Unit]
    /\ request = [c \in Callers |-> NoRequest]
    /\ sends = [c \in Callers |-> 0]
    /\ calls = [c \in Callers |-> 0]
    /\ transport = [c \in Callers |-> Pending]
    /\ envelope = [c \in Callers |-> None]
    /\ outcome = [c \in Callers |-> NoOutcome]
    /\ mode = "blocking"
    /\ thread = [c \in Callers |-> c]
    /\ \E s \in RoundTripShapes : \E x \in Variants(s) :
            roundtrip = [at |-> "value", shape |-> s, value |-> x]

\* #[derive(Serialize)]: the value is written as JSON
Serialize ==
    /\ roundtrip.at = "value"
    /\ roundtrip' = [at |-> "wire", shape |-> roundtrip.shape,
                     value |-> roundtrip.value,
                     wire |-> Encode(roundtrip.shape, roundtrip.value)]
    /\ UNCHANGED <<pc, fn, arg, request, sends, calls, transport, envelope,
                   outcome, mode, thread>>

\* #[derive(Deserialize)]: the JSON is read back as a value of the struct
Deserialize ==
    /\ roundtrip.at = "wire"
    /\ roundtrip' = [at |-> "back", shape |-> roundtrip.shape,
                     value |-> roundtrip.value, wire |-> roundtrip.wire,
                     back |-> Decode(roundtrip.shape, roundtrip.wire)]
    /\ UNCHANGED <<pc, fn, arg, request, sends, calls, transport, envelope,
                   outcome, mode, thread>>

NextRoundTrip == Serialize \/ Deserialize

SpecRoundTrip == InitRoundTrip /\ [][NextRoundTrip]_vars

(***************************************************************************)
(* Properties.                                                             *)
(***************************************************************************)
Returned(c) == pc[c] = "returned"
\* the result shape of the call of c
ShapeOf(c) == Wrapper(fn[c]).R
\* the transport handed back a response whose body is a JSON object
ObjBody(c) ==
    /\ Returned(c)
    /\ transport[c].kind = "ok"
    /\ transport[c].body.b = "json"
    /\ transport[c].body.v.t = "obj"
\* what the body of the response holds under a key
Absent == [t |-> "absent"]
Wire(c, key) ==
    IF key \in Keys(transport[c].body.v) THEN transport[c].body.v.v[key] ELSE Absent

\* C1: whenever the response decodes into the envelope and its error is a
\* string, the call returns Error::Anki with exactly that string and no
\* value, whether the result is null, absent or a value.
C1_ErrorReturnedVerbatim ==
    \A c \in Callers :
        (ObjBody(c) /\ envelope[c].some /\ Wire(c, "error").t = "str") =>
            /\ outcome[c].err = Some([tag |-> "Anki", msg |-> Wire(c, "error").v])
            /\ outcome[c].ok = None

\* a response with an error string and a result that decodes as a value
C1_Witness ==
    \E c \in Callers :
        /\ ObjBody(c) /\ envelope[c].some
        /\ Wire(c, "error") = JStr("deck was not found")
        /\ Wire(c, "result").t = "arr"
        /\ envelope[c].v.result.some
        /\ outcome[c].err = Some(Anki("deck was not found"))

\* C2: a response with "result": null and "error": null makes the call
\* succeed with the default of the result shape: () for a unit result, the
\* empty list for a list.
C2_NullResultIsDefault ==
    \A c \in Callers :
        (ObjBody(c) /\ Wire(c, "result") = JNull /\ Wire(c, "error") = JNull) =>
            /\ outcome[c].err = None
            /\ outcome[c].ok.some
            /\ outcome[c].ok.v = DefaultOf(ShapeOf(c))
            /\ ShapeOf(c).k = "unit" => outcome[c].ok.v = "()"
            /\ ShapeOf(c).k = "vec" => outcome[c].ok.v = <<>>
            /\ ShapeOf(c).k = "bool" => outcome[c].ok.v = FALSE

\* forget_cards answered {"result": null, "error": null} returns Ok(())
C2_Witness ==
    \E c \in Callers :
        /\ ObjBody(c) /\ fn[c] = "forget_cards"
        /\ Wire(c, "result") = JNull /\ Wire(c, "error") = JNull
        /\ outcome[c] = Ok(Unit)

\* C3: the posted envelope has a params key exactly when the wrapper takes
\* parameters; then it holds the caller's value, serialised; otherwise the
\* envelope has the keys action and version and nothing else.
C3_ParamsKeyIffParameters ==
    \A c \in Callers :
        pc[c] # "idle" =>
            LET b == request[c].body
                w == Wrapper(fn[c])
            IN  /\ b.t = "obj"
                /\ ("params" \in Keys(b)) <=> w.arg
                /\ w.arg => /\ b.v["params"] = Encode(w.P, arg[c])
                            /\ b.v["params"].t = "obj"
                            /\ Keys(b.v["params"]) = FieldKeys(w.P)
                /\ ~w.arg => Keys(b) = {"action", "version"}

\* deck_names posted without a params key, its answer awaited
C3_Witness ==
    \E c \in Callers :
        /\ pc[c] = "awaiting" /\ fn[c] = "deck_names"
        /\ Keys(request[c].body) = {"action", "version"}

\* C4: a call that returned has a value or an error and never both or
\* neither, whichever of result and error the response holds.
C4_ExactlyOneOutcome ==
    \A c \in Callers :
        Returned(c) => (outcome[c].ok.some # outcome[c].err.some)

\* a response holding both a result value and an error string
C4_Witness ==
    \E c \in Callers :
        /\ ObjBody(c) /\ envelope[c].some
        /\ envelope[c].v.result.some /\ envelope[c].v.error.some
        /\ outcome[c].err.some /\ ~outcome[c].ok.some

\* C5: with "error": null and a result that decodes into the result shape,
\* the call returns that value: a list of integers element by element in
\* the order of the response, a boolean or an integer as it is.
C5_ResultReturnedAsDecoded ==
    \A c \in Callers :
        (/\ ObjBody(c) /\ Wire(c, "error") = JNull
         /\ Wire(c, "result") \notin {JNull, Absent}
         /\ Decode(ShapeOf(c), Wire(c, "result")).ok) =>
            LET j == Wire(c, "result")
                R == ShapeOf(c)
            IN  /\ outcome[c].err = None
                /\ outcome[c].ok = Some(Decode(R, j).v)
                /\ (R.k = "vec" /\ R.of.k \in {"usize", "isize"}) =>
                        /\ Len(outcome[c].ok.v) = Len(j.v)
                        /\ \A i \in 1..Len(j.v) : outcome[c].ok.v[i] = j.v[i].v
                /\ R.k \in {"bool", "usize"} => outcome[c].ok.v = j.v

\* find_cards answered {"result": [1,2,3], "error": null} returns [1,2,3]
C5_Witness ==
    \E c \in Callers :
        /\ ObjBody(c) /\ fn[c] = "find_cards"
        /\ Wire(c, "error") = JNull
        /\ Wire(c, "result") = JArr(<<JNum(1), JNum(2), JNum(3)>>)
        /\ outcome[c] = Ok(<<1, 2, 3>>)

\* C6: a call whose send_json failed returns Error::Ureq with the cause
\* and has no decoded envelope; an envelope, a decode error or an
\* application error exists only after the transport handed back a
\* response, and nothing is decoded or returned while the answer is awaited.
C6_NoEnvelopeWithoutResponse ==
    \A c \in Callers :
        /\ transport[c].kind = "err" =>
                /\ outcome[c] = [ok |-> None,
                                 err |-> Some([tag |-> "Ureq",
                                               cause |-> transport[c].cause])]
                /\ envelope[c] = None
        /\ envelope[c].some => transport[c].kind = "ok"
        /\ (outcome[c].err.some /\ outcome[c].err.v.tag \in {"Serde", "Anki"}) =>
                transport[c].kind = "ok"
        /\ pc[c] = "awaiting" => (envelope[c] = None /\ outcome[c] = NoOutcome)

\* a connection failure returned as Error::Ureq, nothing decoded
C6_Witness ==
    \E c \in Callers :
        /\ Returned(c) /\ transport[c].kind = "err"
        /\ transport[c].cause.e = "Transport"
        /\ transport[c].cause.kind = "ConnectionFailed"
        /\ outcome[c].err.some /\ outcome[c].err.v.tag = "Ureq"
        /\ envelope[c] = None

\* C7: every call issues exactly one HTTP request: the requests issued for
\* a caller always number its calls, whatever the calls returned.
C7_OneRequestPerCall ==
    \A c \in Callers : sends[c] = calls[c]

\* a second call that failed to decode, after two requests in all
C7_Witness ==
    \E c \in Callers :
        /\ Returned(c) /\ calls[c] = 2 /\ sends[c] = 2
        /\ outcome[c].err.some /\ outcome[c].err.v.tag = "Serde"

\* C8: a call returns a value only if the transport handed back a response,
\* the response decoded and its error was null; a failed send returns
\* Error::Ureq, a response that does not decode Error::Serde, and a decoded
\* error Error::Anki.
C8_NoFailureSwallowed ==
    \A c \in Callers :
        Returned(c) =>
            /\ outcome[c].ok.some =>
                    /\ transport[c].kind = "ok"
                    /\ IntoJson(ShapeOf(c), transport[c].body).ok
                    /\ envelope[c].some /\ ~envelope[c].v.error.some
            /\ transport[c].kind = "err" =>
                    (outcome[c].err.some /\ outcome[c].err.v.tag = "Ureq")
            /\ (transport[c].kind = "ok"
                    /\ ~IntoJson(ShapeOf(c), transport[c].body).ok) =>
                    (outcome[c].err.some /\ outcome[c].err.v.tag = "Serde")
            /\ (envelope[c].some /\ envelope[c].v.error.some) =>
                    (outcome[c].err.some /\ outcome[c].err.v.tag = "Anki")

\* bytes that are not JSON reach the caller as Error::Serde
C8_Witness ==
    \E c \in Callers :
        /\ Returned(c) /\ transport[c].kind = "ok"
        /\ transport[c].body.b = "text"
        /\ outcome[c].err.some /\ outcome[c].err.v.tag = "Serde"
        /\ ~outcome[c].ok.some

\* the objects of a result value that stand for a struct of the result
\* shape, each with its struct: the value itself, or the elements of a list
StructObjects(R, j) ==
    IF R.k = "struct" /\ j.t = "obj" THEN {<<R, j>>}
    ELSE IF R.k = "vec" /\ R.of.k = "struct" /\ j.t = "arr"
         THEN {<<R.of, j.v[i]>> : i \in {n \in 1..Len(j.v) : j.v[n].t = "obj"}}
         ELSE {}
\* the object has a key the struct does not declare
Undeclared(s, o) == Keys(o) \ FieldKeys(s) # {}
\* the object lacks a key of a field that is no Option
Lacking(s, o) ==
    \E i \in 1..Len(s.fields) :
        s.fields[i].shape.k # "opt" /\ s.fields[i].key \notin Keys(o)

\* C9 as stated: a result with a field the shape does not declare, or
\* without a field it requires, makes the call fail with Error::Serde.
C9_AnyMismatchFails ==
    \A c \in Callers :
        (ObjBody(c) /\ Wire(c, "result") # Absent) =>
            \A p \in StructObjects(ShapeOf(c), Wire(c, "result")) :
                (Undeclared(p[1], p[2]) \/ Lacking(p[1], p[2])) =>
                    (outcome[c].err.some /\ outcome[c].err.v.tag = "Serde")

\* C9 as amended: a result without a field the shape requires makes the
\* call fail with Error::Serde; a field the shape does not declare is
\* skipped, and with "error": null and the declared fields in place the call
\* returns the struct made of the declared fields alone.
C9_MissingFailsUndeclaredIgnored ==
    \A c \in Callers :
        (ObjBody(c) /\ Wire(c, "result") # Absent) =>
            LET R == ShapeOf(c)
                j == Wire(c, "result")
            IN  /\ (\E p \in StructObjects(R, j) : Lacking(p[1], p[2])) =>
                        (outcome[c].err.some /\ outcome[c].err.v.tag = "Serde")
                /\ (/\ R = SVec(CardsModTime) /\ j.t = "arr" /\ Len(j.v) = 1
                    /\ j.v[1].t = "obj"
                    /\ Undeclared(CardsModTime, j.v[1])
                    /\ \A k \in {"cardId", "mod"} :
                            k \in Keys(j.v[1]) /\ j.v[1].v[k].t = "num"
                    /\ Wire(c, "error") = JNull) =>
                        outcome[c] =
                            Ok(<<[card_id |-> j.v[1].v["cardId"].v,
                                  mod_ |-> j.v[1].v["mod"].v]>>)

\* cards_mod_times answered [{"cardId": 1, "mod": 1, "extra": 1}] returns
\* the one CardsModTime
C9_Witness ==
    \E c \in Callers :
        /\ ObjBody(c) /\ fn[c] = "cards_mod_times"
        /\ Wire(c, "error") = JNull
        /\ Wire(c, "result").t = "arr" /\ Len(Wire(c, "result").v) = 1
        /\ Wire(c, "result").v[1].t = "obj"
        /\ Keys(Wire(c, "result").v[1]) = {"cardId", "mod", "extra"}
        /\ outcome[c] = Ok(<<[card_id |-> 1, mod_ |-> 1]>>)

\* what the io::Error of an Error::Serde says went wrong
JsonErrorKind(e) ==
    CASE e.io.msg \in {SyntaxMsg, EofMsg} -> "not JSON"
      [] e.io.msg = DataMsg -> "wrong shape"
      [] OTHER -> "other"

\* C10: the Error::Serde of a response that is not JSON differs from the
\* one of a response that is JSON of the wrong shape: the message of the
\* io::Error it wraps tells which of the two happened.
C10_DecodeErrorsDistinguishable ==
    \A c \in Callers :
        (Returned(c) /\ transport[c].kind = "ok"
            /\ transport[c].body.b \in {"text", "json"}
            /\ ~IntoJson(ShapeOf(c), transport[c].body).ok) =>
            /\ outcome[c].err.some /\ outcome[c].err.v.tag = "Serde"
            /\ JsonErrorKind(outcome[c].err.v) =
                    IF transport[c].body.b = "text" THEN "not JSON" ELSE "wrong shape"

\* a JSON response whose result has the wrong shape, returned as an
\* Error::Serde that says so
C10_Witness ==
    \E c \in Callers :
        /\ ObjBody(c) /\ fn[c] = "suspend"
        /\ Wire(c, "result") = JStr("a")
        /\ outcome[c].err.some /\ outcome[c].err.v.tag = "Serde"
        /\ JsonErrorKind(outcome[c].err.v) = "wrong shape"

\* C11: a failure of the network call itself, a failed read of the
\* response body included, comes back as Error::Ureq, and Error::Serde
\* comes back only for bytes that were received and could not be parsed.
C11_ErrorsPartitionedByCause ==
    \A c \in Callers :
        Returned(c) =>
            /\ (transport[c].kind = "err"
                    \/ (transport[c].kind = "ok" /\ transport[c].body.b = "io")) =>
                    (outcome[c].err.some /\ outcome[c].err.v.tag = "Ureq")
            /\ (outcome[c].err.some /\ outcome[c].err.v.tag = "Serde") =>
                    (transport[c].kind = "ok"
                        /\ transport[c].body.b \in {"text", "json"})

\* C12: the envelope of every request carries the action name bound to its
\* action and the version bound to it, which is 6 for every action,
\* whatever parameters the caller passed.
C12_ActionAndVersionBound ==
    \A c \in Callers :
        pc[c] # "idle" =>
            LET w == Wrapper(fn[c])
                sent == request[c].body
            IN  /\ sent.t = "obj"
                /\ sent.v["action"] = JStr(w.action)
                /\ sent.v["version"] = JNum(6)
                /\ w \in Requests => sent.v["version"] = JNum(w.version)
                /\ w \in Catalog => sent.v["version"] = JNum(ProtocolVersion)

C12_Witness ==
    /\ pc[1] = "awaiting"
    /\ fn[1] = "AreDueRequest"
    /\ arg[1] = [cards |-> <<1>>]
    /\ request[1].body.v["action"] = JStr("areDue")
    /\ request[1].body.v["version"] = JNum(6)
    /\ calls[1] = 2

\* the call of c and the call of d are the same action with the same
\* parameters, answered alike
SameCall(c, d) ==
    /\ fn[c] = fn[d]
    /\ arg[c] = arg[d]
    /\ transport[c] = transport[d]

\* C13: dispatch is stateless and reentrant.  A step of one call leaves
\* every other call as it was, and two calls of the same action with the
\* same parameters and the same answer of the transport have the same
\* outcome, whatever calls ran before them or run next to them.
C13_StatelessReentrant ==
    [][ /\ \A c \in Callers :
            pc'[c] = pc[c] =>
                /\ fn'[c] = fn[c] /\ arg'[c] = arg[c]
                /\ request'[c] = request[c] /\ sends'[c] = sends[c]
                /\ calls'[c] = calls[c] /\ transport'[c] = transport[c]
                /\ envelope'[c] = envelope[c] /\ outcome'[c] = outcome[c]
        /\ \A c, d \in Callers :
            (pc'[c] = "returned" /\ pc'[d] = "returned"
                /\ fn'[c] = fn'[d] /\ arg'[c] = arg'[d]
                /\ transport'[c] = transport'[d]) =>
                outcome'[c] = outcome'[d]
      ]_vars

C13_Witness ==
    /\ Returned(1) /\ Returned(2)
    /\ SameCall(1, 2)
    /\ fn[1] = "find_cards"
    /\ calls[1] = 2 /\ calls[2] = 1
    /\ outcome[1] = Ok(<<1, 2>>)
    /\ outcome[2] = outcome[1]

C15_RoundTrip ==
    /\ roundtrip.at = "back" => roundtrip.back = DecodeOk(roundtrip.value)
    /\ roundtrip.at \in {"wire", "back"} =>
        /\ roundtrip.shape = GuiAddCardsNoteFields =>
                Keys(roundtrip.wire) = {"Text", "Extra"}
        /\ roundtrip.shape = GuiAddCardsNote =>
                Keys(roundtrip.wire) =
                    {"deckName", "modelName", "fields", "tags", "picture"}
        /\ roundtrip.shape = NoteMedia =>
                \A key \in {"url", "path", "data", "skip_hash"} :
                    key \in Keys(roundtrip.wire) <=> roundtrip.value[key].some
        /\ roundtrip.shape = UpdateNoteFields =>
                \A key \in {"audio", "video", "picture"} :
                    key \in Keys(roundtrip.wire) <=> roundtrip.value[key].some

C15_Witness ==
    /\ roundtrip.at = "back"
    /\ roundtrip.shape = UpdateNoteFields
    /\ ~roundtrip.value.audio.some
    /\ roundtrip.value.video.some
    /\ "audio" \notin Keys(roundtrip.wire)
    /\ roundtrip.back.ok
    /\ roundtrip.back.v = roundtrip.value

\* the response of the call of c has the result r and a null error
Answered(c, r) ==
    /\ ObjBody(c)
    /\ Wire(c, "result") = r
    /\ Wire(c, "error") = JNull

\* a JSON array whose every element is of one of the given types
ArrayOf(j, types) ==
    /\ j.t = "arr"
    /\ \A i \in 1..Len(j.v) : j.v[i].t \in types

\* C16: are_suspended returns one entry per card, in order, and the entry
\* of a card that does not exist is null: an array with a null element is
\* returned, the null kept at its place.
C16_NullEntryPreserved ==
    \A c \in Callers :
        (fn[c] = "are_suspended" /\ ObjBody(c) /\ Wire(c, "error") = JNull
            /\ ArrayOf(Wire(c, "result"), {"bool", "null"})
            /\ Len(Wire(c, "result").v) = Len(arg[c].cards)) =>
            LET sent == Wire(c, "result").v
            IN  /\ outcome[c].ok.some
                /\ Len(outcome[c].ok.v) = Len(sent)
                /\ \A i \in 1..Len(sent) :
                        outcome[c].ok.v[i] =
                            IF sent[i].t = "null" THEN None ELSE Some(sent[i].v)

\* C17: gui_show_question and gui_show_answer return true in review mode
\* and false otherwise: the boolean of the response is what the caller
\* receives.
C17_BooleanReturned ==
    \A c \in Callers : \A b \in BOOLEAN :
        (fn[c] \in {"gui_show_question", "gui_show_answer"}
            /\ Answered(c, JBool(b))) =>
            outcome[c] = Ok(b)

\* C18: gui_current_card answered with a null result and a null error
\* gives the caller an outcome that no response carrying a card gives.
C18_NullDistinctFromCard ==
    \A c \in Callers :
        (fn[c] = "gui_current_card" /\ Answered(c, JNull)) =>
            \A card \in CardObjects :
                outcome[c] #
                    OnResponse(GuiCurrentCard,
                        [b |-> "json",
                         v |-> JObj([k \in {"result", "error"} |->
                                      IF k = "result" THEN card ELSE JNull])]).outcome

\* C19: get_intervals_alternative returns what the remote end sends for
\* both values of complete: the flat array of the most recent intervals
\* for false, the 2-dimensional array for true.
C19_BothShapesReturned ==
    \A c \in Callers :
        (fn[c] = "get_intervals_alternative" /\ ObjBody(c)
            /\ Wire(c, "error") = JNull
            /\ Wire(c, "result").t = "arr"
            /\ Len(Wire(c, "result").v) = Len(arg[c].cards)
            /\ IF arg[c].complete
               THEN /\ ArrayOf(Wire(c, "result"), {"arr"})
                    /\ \A i \in 1..Len(Wire(c, "result").v) :
                            ArrayOf(Wire(c, "result").v[i], {"num"})
               ELSE ArrayOf(Wire(c, "result"), {"num"})) =>
            outcome[c].ok.some

\* the body of the call of c with null under each key it lacks
WithNulls(c) ==
    [b |-> "json",
     v |-> JObj([k \in Keys(transport[c].body.v) \cup {"result", "error"} |->
                  IF k \in Keys(transport[c].body.v)
                  THEN transport[c].body.v.v[k] ELSE JNull])]

\* C20: a response that lacks the result key, the error key or both is
\* resolved like the one with null under that key: without a result and
\* without an error the call returns the default of the result shape, and
\* a missing error key never gives Error::Anki.
C20_AbsentKeyIsNull ==
    \A c \in Callers :
        ObjBody(c) =>
            /\ outcome[c] = OnResponse(ShapeOf(c), WithNulls(c)).outcome
            /\ (Wire(c, "result") = Absent /\ Wire(c, "error") \in {Absent, JNull}) =>
                    outcome[c] = Ok(DefaultOf(ShapeOf(c)))
            /\ Wire(c, "error") = Absent =>
                    ~(outcome[c].err.some /\ outcome[c].err.v.tag = "Anki")

C20_Witness ==
    /\ Returned(1)
    /\ fn[1] = "deck_names"
    /\ transport[1] = [kind |-> "ok", body |-> [b |-> "json", v |-> JObj(<<>>)]]
    /\ envelope[1] = Some([result |-> None, error |-> None])
    /\ outcome[1] = Ok(<<>>)

\* C21: every call terminates.  A call that waits for the transport gets
\* its outcome, and it gets it in the step in which the transport returns
\* the response or the failure: no further request is issued and nothing
\* more is waited for.
C21_Terminates ==
    /\ \A c \in Callers : (pc[c] = "awaiting") ~> (outcome[c] # NoOutcome)
    /\ [][\A c \in Callers :
            (pc[c] = "awaiting" /\ transport'[c] # Pending) =>
                /\ pc'[c] = "returned"
                /\ outcome'[c] # NoOutcome
                /\ sends'[c] = sends[c]
                /\ request'[c] = request[c]]_vars

C21_Witness ==
    /\ Returned(1)
    /\ fn[1] = "find_cards"
    /\ transport[1] = [kind |-> "err",
                       cause |-> [e |-> "Transport", kind |-> "ConnectionFailed"]]
    /\ outcome[1].err.some
    /\ sends[1] = 2
    /\ pc[2] = "awaiting"

\* C22: every request of every action goes to http://localhost:8765 as a
\* POST with a JSON object as its body, whatever the action and whatever
\* the parameters.
C22_FixedEndpoint ==
    \A c \in Callers :
        pc[c] # "idle" =>
            /\ request[c].method = "POST"
            /\ request[c].url = "http://localhost:8765"
            /\ request[c].body.t = "obj"
            /\ {"action", "version"} \subseteq Keys(request[c].body)

C22_Witness ==
    /\ Returned(1)
    /\ fn[1] = "gui_add_cards"
    /\ arg[1] = SampleOf(Wrapper("gui_add_cards").P)
    /\ request[1].url = "http://localhost:8765"
    /\ request[1].method = "POST"
    /\ "params" \in Keys(request[1].body)

\* the result the response of the call of c carries does not decode as the
\* result shape of the call
ResultMismatch(c) ==
    /\ Wire(c, "result") \notin {Absent, JNull}
    /\ ~Decode(ShapeOf(c), Wire(c, "result")).ok

\* C23: the error is looked at only after the whole envelope is decoded.
\* A response with an error string and a result that does not match the
\* result shape gives Error::Serde, and Error::Anki is returned only when
\* the result is null, absent or of the result shape.
C23_ErrorAfterDecode ==
    \A c \in Callers :
        ObjBody(c) =>
            /\ (Wire(c, "error").t = "str" /\ ResultMismatch(c)) =>
                    /\ outcome[c] = Err(Serde(IoError("InvalidData", DataMsg)))
                    /\ envelope[c] = None
            /\ (outcome[c].err.some /\ outcome[c].err.v.tag = "Anki") =>
                    ~ResultMismatch(c)

C23_Witness ==
    /\ ObjBody(1)
    /\ fn[1] = "find_cards"
    /\ Wire(1, "error") = JStr("deck was not found")
    /\ Wire(1, "result") = JStr("a")
    /\ outcome[1].err.some
    /\ outcome[1].err.v.tag = "Serde"

\* the typed requests bound to the action of a wrapper
Twins(w) == {q \in Requests : q.action = w.action}

\* the wire keys of a parameter struct with the shape under each
Params(P) == {<<P.fields[i].key, P.fields[i].shape>> : i \in 1..Len(P.fields)}

\* C24: the two catalogs agree.  A wrapper and a typed request of the same
\* action send envelopes with the same action, the version 6 and the same
\* parameter keys with the same value types, and declare the same result
\* shape.
C24_CatalogsAgree ==
    \A c \in Callers :
        (pc[c] # "idle" /\ Wrapper(fn[c]) \in Catalog) =>
            \A q \in Twins(Wrapper(fn[c])) :
                LET w == Wrapper(fn[c])
                    sent == request[c].body
                    twin == Encode(AnkiConnectRequest(q.P),
                                   RequestData(q, SampleOf(q.P)))
                IN  /\ sent.v["action"] = twin.v["action"]
                    /\ sent.v["version"] = JNum(6)
                    /\ twin.v["version"] = JNum(6)
                    /\ Keys(sent.v["params"]) = Keys(twin.v["params"])
                    /\ Params(w.P) = Params(q.P)
                    /\ w.R = q.R

\* C25: for a wrapper whose result is a boolean or an integer, a response
\* with a null result and a null error returns what a response with the
\* result false, or 0, returns: the caller cannot tell the two apart.
C25_NullIsFalseOrZero ==
    \A c \in Callers :
        (Answered(c, JNull) /\ ShapeOf(c) \in {SBool, SUsize}) =>
            LET zero == IF ShapeOf(c) = SBool THEN JBool(FALSE) ELSE JNum(0)
                literal == [b |-> "json",
                            v |-> JObj([k \in {"result", "error"} |->
                                         IF k = "result" THEN zero ELSE JNull])]
            IN  /\ outcome[c] = OnResponse(ShapeOf(c), literal).outcome
                /\ outcome[c] = Ok(IF ShapeOf(c) = SBool THEN FALSE ELSE 0)

C25_Witness ==
    /\ Answered(1, JNull)
    /\ fn[1] = "create_deck"
    /\ ShapeOf(1) = SUsize
    /\ outcome[1] = Ok(0)
    /\ envelope[1] = Some([result |-> None, error |-> None])

====
